---- MODULE Spec2Model ----
(***************************************************************************)
(* Auction lifecycle and bid arbitration of the auction platform:          *)
(*   - AuctionService (services/auctionService.js): the monitoring clock   *)
(*     (checkAuctionStatus / startAuction / endAuction) and the socket     *)
(*     bid path placeBid, called from the place_bid handler of server.js;  *)
(*   - the REST bid route POST /api/bids (backend/routes/bids.js);         *)
(*   - the tables auctions, bids, transactions of config/database.js.      *)
(*                                                                         *)
(* The database is MySQL/InnoDB at its default isolation level: a read     *)
(* outside a transaction sees committed rows only, so the variables        *)
(* auctions, bids and transactions hold the COMMITTED state and a bid      *)
(* transaction's writes are applied to them by its commit.  A bid          *)
(* transaction starts with INSERT INTO bids, which locks the auction's     *)
(* (auction_id, FALSE) entry of the unique index unique_winning_bid and    *)
(* share-locks the parent auctions row (foreign key); both are kept to     *)
(* the commit or rollback, so bid transactions of one auction run one at   *)
(* a time and the clock's UPDATE of that auctions row waits for them:      *)
(* this is the variable lock.                                              *)
(*                                                                         *)
(* Every await of a handler is a point where other handlers run; a         *)
(* handler is cut into actions at the awaits that read or write the        *)
(* shared state.  Prices and percentages are read as numbers.  Time is    *)
(* counted in whole units (one unit stands for a minute).                  *)
(***************************************************************************)
EXTENDS Integers, Sequences, FiniteSets, TLC

(***************************************************************************)
(* Bounds of the model.                                                    *)
(***************************************************************************)
MaxRequests == 2      \* bid submissions (socket or REST) over a run
MaxOverlap == 2       \* checkAuctionStatus invocations in flight at once
MaxTime == 4          \* the wall clock runs from 0 to MaxTime
MaxBids == 2          \* bid ids handed out before processAutoBids stops calling

AuctionIds == {1}

(***************************************************************************)
(* Input data: the sample auction of the seed script and its bidders.      *)
(***************************************************************************)
StartingPrice == 350000000
Percentages == {3, 5}
ReservePrices == {0, 365000000}
\* start_time, end_time and auto_extend_minutes of the auction
Schedule == [start_time |-> 1, end_time |-> 3, auto_extend_minutes |-> 1]
Amounts == {340000000, 361000000, 380000000}
Users == {"alice", "bob", "carol"}

\* users.status and users.identity_verified of each bidder
UserStatus(u) == IF u = "carol" THEN "suspended" ELSE "active"
IdentityVerified(u) == u # "bob"

\* SQL NULL of a TIMESTAMP or INT column (times and ids are >= 1)
NULL == 0
\* minimum increment of the REST route
MIN_INCREMENT == 100000

VARIABLES
    now,           \* wall clock (new Date(), NOW())
    auctions,      \* table auctions: committed rows, by id
    bids,          \* table bids: committed rows, in insertion order
    transactions,  \* table transactions: committed rows, in insertion order
    nextBidId,     \* AUTO_INCREMENT of bids.id
    lock,          \* per auction: the bid request whose transaction is open, or 0
    req,           \* bid requests: position and locals of each handler
    clk,           \* checkAuctionStatus invocations: position and locals
    events,        \* events emitted to the auction rooms, in emission order
    autoBids,      \* AuctionService.autoBids: the Map's entries, in insertion order
    auto_bids,     \* table auto_bids: rows
    resolver,      \* the processAutoBids pass in progress: position and locals
    cancelled      \* history: <<auction, user>> whose DELETE /auto-bid succeeded
                   \* and who has not registered again since

autoVars == <<autoBids, auto_bids, resolver, cancelled>>

vars == <<now, auctions, bids, transactions, nextBidId, lock, req, clk, events,
          autoBids, auto_bids, resolver, cancelled>>

(***************************************************************************)
(* Pure helpers.                                                           *)
(***************************************************************************)
Max(a, b) == IF a >= b THEN a ELSE b

\* Math.ceil(x * (pct / 100)) for integers x, pct (no overflow near 2^31)
CeilPercent(x, pct) ==
    (x \div 100) * pct + (((x % 100) * pct + 99) \div 100)

\* Math.floor(x * 0.05)
FloorFivePercent(x) ==
    (x \div 100) * 5 + (((x % 100) * 5) \div 100)

\* Fault: no minimum at all.
calculateMinBid_NoMinimum(currentPrice, incrementPercentage) == 0

\* Fault: the increment is left out.
calculateMinBid_NoIncrement(currentPrice, incrementPercentage) == currentPrice

\* AuctionService.calculateMinBid
calculateMinBid(currentPrice, incrementPercentage) ==
    LET increment == CeilPercent(currentPrice, incrementPercentage)
    IN  currentPrice + increment

\* AuctionService.calculateNextBid
calculateNextBid(currentPrice) ==
    currentPrice + CeilPercent(currentPrice, 5)

\* minBidAmount of the REST route
RestMinBidAmount(row) ==
    LET currentPrice == IF row.current_price # 0 THEN row.current_price
                        ELSE StartingPrice
        minBidIncrement == Max(MIN_INCREMENT, FloorFivePercent(currentPrice))
    IN  currentPrice + minBidIncrement

\* new Date(auction.extended_end_time || auction.end_time)
EffectiveEnd(row) ==
    IF row.extended_end_time # NULL THEN row.extended_end_time
    ELSE row.end_time

(***************************************************************************)
(* Table bids.                                                             *)
(***************************************************************************)
BidsOf(rows, a) == {i \in 1..Len(rows) : rows[i].auction_id = a}

\* Fault: the table without its unique key.
UniqueWinningBid_Dropped(rows) == TRUE

\* UNIQUE KEY unique_winning_bid (auction_id, is_winning)
UniqueWinningBid(rows) ==
    \A i, j \in 1..Len(rows) :
        (i # j /\ rows[i].auction_id = rows[j].auction_id)
            => rows[i].is_winning # rows[j].is_winning

\* INSERT INTO bids (...): is_winning takes its default, FALSE
InsertBid(rows, id, a, u, amt, type) ==
    Append(rows, [id |-> id, auction_id |-> a, user_id |-> u, amount |-> amt,
                  bid_type |-> type, is_winning |-> FALSE])

\* UPDATE bids SET is_winning = FALSE WHERE auction_id = ? AND id != ?
MarkOthersNotWinning(rows, a, id) ==
    [i \in 1..Len(rows) |->
        IF rows[i].auction_id = a /\ rows[i].id # id
        THEN [rows[i] EXCEPT !.is_winning = FALSE] ELSE rows[i]]

\* Fault: the new bid is never marked.
MarkWinning_Omitted(rows, id) == rows

\* UPDATE bids SET is_winning = TRUE WHERE id = ?
MarkWinning(rows, id) ==
    [i \in 1..Len(rows) |->
        IF rows[i].id = id THEN [rows[i] EXCEPT !.is_winning = TRUE]
        ELSE rows[i]]

\* The three statements on bids of a bid transaction, run on the committed
\* rows (the transaction holds the auction's lock).  MySQL checks the unique
\* key after each statement; a duplicate entry fails the statement.
BidStatements(rows, id, a, u, amt, type) ==
    LET r1 == InsertBid(rows, id, a, u, amt, type)
        r2 == MarkOthersNotWinning(r1, a, id)
        r3 == MarkWinning(r2, id)
    IN  [ok |-> UniqueWinningBid(r1) /\ UniqueWinningBid(r2)
                /\ UniqueWinningBid(r3),
         rows |-> r3]

\* getWinningBid: WHERE auction_id = ? AND is_winning = TRUE
\*                ORDER BY created_at DESC LIMIT 1   (0: no row)
\* Rows are kept in insertion order, which is the order of created_at.
getWinningBid(rows, a) ==
    LET w == {i \in BidsOf(rows, a) : rows[i].is_winning}
    IN  IF w = {} THEN 0
        ELSE CHOOSE i \in w : \A j \in w : j <= i

\* SELECT user_id, amount FROM bids WHERE auction_id = ?
\*   ORDER BY amount DESC LIMIT 1   (0: no row)
HighestBid(rows, a) ==
    LET s == BidsOf(rows, a)
    IN  IF s = {} THEN 0
        ELSE CHOOSE i \in s : \A j \in s :
                 rows[j].amount < rows[i].amount
                 \/ (rows[j].amount = rows[i].amount /\ i <= j)

(***************************************************************************)
(* Initial state: the auction as the seed script creates it (scheduled,    *)
(* current_price = starting_price, no bid, no extension), no request and   *)
(* no clock invocation in progress.                                        *)
(***************************************************************************)
NoRow ==
    [status |-> "none", start_time |-> NULL, end_time |-> NULL,
     extended_end_time |-> NULL, reserve_price |-> 0, current_price |-> 0,
     bid_increment_percentage |-> 0, current_bid_count |-> 0,
     result |-> "null", winning_bid_id |-> NULL,
     auto_extend_enabled |-> FALSE, auto_extend_minutes |-> 0]

NewAuction(pct, reserve, extend) ==
    [status |-> "scheduled", start_time |-> Schedule.start_time,
     end_time |-> Schedule.end_time,
     extended_end_time |-> NULL, reserve_price |-> reserve,
     current_price |-> StartingPrice, bid_increment_percentage |-> pct,
     current_bid_count |-> 0, result |-> "null", winning_bid_id |-> NULL,
     auto_extend_enabled |-> extend,
     auto_extend_minutes |-> Schedule.auto_extend_minutes]

\* The fields of the auction row read before the transaction that placeBid
\* uses after it has begun the transaction.
Fields(row) ==
    [extended_end_time |-> row.extended_end_time, end_time |-> row.end_time,
     auto_extend_enabled |-> row.auto_extend_enabled,
     auto_extend_minutes |-> row.auto_extend_minutes]

IdleRequest ==
    [pc |-> "idle", path |-> "none", auctionId |-> 0, userId |-> "none",
     amount |-> 0, auction |-> Fields(NoRow), bidId |-> 0,
     newEndTime |-> NULL, outcome |-> "none", previous |-> "none",
     notify |-> "none"]

\* A request as the handler receives it.
Received(path, a, u, amt) ==
    [IdleRequest EXCEPT !.path = path, !.auctionId = a, !.userId = u,
                        !.amount = amt]

\* A handler that has returned: its entry point, the auction and the amount
\* of the request, the id of the bid it inserted and its outcome are kept.
Returned(r, outcome) ==
    [IdleRequest EXCEPT !.pc = "done", !.path = r.path,
                        !.auctionId = r.auctionId, !.amount = r.amount,
                        !.bidId = r.bidId, !.outcome = outcome,
                        !.notify = r.notify]

\* Requests and clock invocations are taken in the order of their index.
FirstIdle(f, i) == f[i].pc = "idle" /\ \A j \in DOMAIN f : j < i => f[j].pc # "idle"

IdleTick ==
    [pc |-> "idle", todo |-> <<>>, result |-> "null", winningBidId |-> NULL,
     winningAmount |-> 0]

IdleResolver ==
    [pc |-> "idle", auctionId |-> 0, newBidAmount |-> 0, todo |-> <<>>,
     slot |-> 0, placed |-> 0]

\* nReq bid submissions over the run, at most nClk clock invocations in
\* flight at once.
InitWith(nReq, nClk, reserves, extends) ==
    /\ now = 0
    /\ \E pct \in Percentages, reserve \in reserves, extend \in extends :
           auctions = [a \in AuctionIds |-> NewAuction(pct, reserve, extend)]
    /\ bids = <<>>
    /\ transactions = <<>>
    /\ nextBidId = 1
    /\ lock = [a \in AuctionIds |-> 0]
    /\ req = [p \in 1..nReq |-> IdleRequest]
    /\ clk = [t \in 1..nClk |-> IdleTick]
    /\ events = <<>>
    /\ autoBids = <<>>
    /\ auto_bids = {}
    /\ resolver = IdleResolver
    /\ cancelled = {}

Init == InitWith(MaxRequests, 1, ReservePrices, BOOLEAN)

\* this.io.to(`auction_${auctionId}`).emit(type, ...)
Emit(type, a, bidId, value) ==
    Append(events, [type |-> type, auctionId |-> a, bidId |-> bidId,
                    value |-> value, result |-> "null"])

(***************************************************************************)
(* The wall clock.                                                         *)
(***************************************************************************)
AdvanceTime ==
    /\ now < MaxTime
    /\ now' = now + 1
    /\ UNCHANGED autoVars
    /\ UNCHANGED <<auctions, bids, transactions, nextBidId, lock, req, clk,
                   events>>

(***************************************************************************)
(* Socket path: the place_bid handler of server.js calls                   *)
(* AuctionService.placeBid.                                                *)
(***************************************************************************)
\* The checks of placeBid before its transaction, on the rows it read.
PlaceBidCheck(row, u, amt) ==
    IF row.status # "live" THEN "not_active"
    ELSE IF amt < calculateMinBid(row.current_price,
                                  row.bid_increment_percentage)
    THEN "too_low"
    ELSE IF UserStatus(u) # "active" THEN "no_user"
    ELSE "ok"

\* placeBid up to beginTransaction: getAuctionDetails, the checks,
\* getUserDetails.  A failed check throws; the handler emits bid_error.
PlaceBid_Validate(p, a, u, amt) ==
    /\ FirstIdle(req, p)
    /\ LET row == auctions[a]
           verdict == PlaceBidCheck(row, u, amt)
       IN  req' = [req EXCEPT ![p] =
                     IF verdict = "ok"
                     THEN [Received("socket", a, u, amt) EXCEPT
                               !.pc = "tx", !.auction = Fields(row)]
                     ELSE Returned(Received("socket", a, u, amt), verdict)]
    /\ UNCHANGED autoVars
    /\ UNCHANGED <<now, auctions, bids, transactions, nextBidId, lock, clk,
                   events>>

\* Fault: every bid extends, however much time remains.
ExtensionDue_Always(row, t) == TRUE

\* Fault: auto_extend_enabled is not consulted.
ExtensionDue_SwitchIgnored(row, t) ==
    EffectiveEnd(row) - t < row.auto_extend_minutes

\* timeRemaining < extendThreshold, on the auction row read before the
\* transaction and the clock at this statement
ExtensionDue(row, t) ==
    /\ row.auto_extend_enabled
    /\ EffectiveEnd(row) - t < row.auto_extend_minutes

\* newEndTime = new Date(Date.now() + extendThreshold)
NewEndTime(row, t) == t + row.auto_extend_minutes

\* bidType of the bid: 'normal' by default, 'auto' from processAutoBids
BidType(r) == IF r.path = "auto" THEN "auto" ELSE "normal"

\* The statements of placeBid's transaction up to the commit: INSERT INTO
\* bids, UPDATE auctions (price, count), the two UPDATEs of is_winning, and
\* the auto-extend UPDATE with its auction_extended event.  A duplicate key
\* fails the statement: rollback, release, throw.
PlaceBid_Transaction(p) ==
    /\ req[p].pc = "tx"
    /\ req[p].path \in {"socket", "auto"}
    /\ lock[req[p].auctionId] = 0
    /\ LET r == req[p]
           a == r.auctionId
           st == BidStatements(bids, nextBidId, a, r.userId, r.amount,
                               BidType(r))
       IN  /\ nextBidId' = nextBidId + 1
           /\ IF st.ok
              THEN /\ lock' = [lock EXCEPT ![a] = p]
                   /\ req' = [req EXCEPT ![p] =
                                [@ EXCEPT !.pc = "commit",
                                          !.bidId = nextBidId,
                                          !.newEndTime =
                                              IF ExtensionDue(r.auction, now)
                                              THEN NewEndTime(r.auction, now)
                                              ELSE NULL]]
                   /\ events' = IF ExtensionDue(r.auction, now)
                                THEN Emit("auction_extended", a, nextBidId,
                                          NewEndTime(r.auction, now))
                                ELSE events
              ELSE /\ req' = [req EXCEPT ![p] =
                                Returned(r, "db_error")]
                   /\ UNCHANGED <<lock, events>>
    /\ UNCHANGED autoVars
    /\ UNCHANGED <<now, auctions, bids, transactions, clk>>

\* Fault: the UPDATE leaves current_price alone.
UpdatePrice_PriceKept(row, amt) ==
    [row EXCEPT !.current_bid_count = row.current_bid_count + 1]

\* Fault: the UPDATE leaves current_bid_count alone.
UpdatePrice_CountKept(row, amt) == [row EXCEPT !.current_price = amt]

\* UPDATE auctions SET current_price = ?, current_bid_count =
\* current_bid_count + 1 WHERE id = ?
UpdatePrice(row, amt) ==
    [row EXCEPT !.current_price = amt,
                !.current_bid_count = row.current_bid_count + 1]

\* UPDATE auctions SET extended_end_time = ? WHERE id = ?
UpdateExtendedEnd(row, newEndTime) ==
    [row EXCEPT !.extended_end_time = newEndTime]

\* connection.commit() of placeBid: the transaction's writes become visible
\* and its locks are released.  A commit that fails throws into the catch:
\* rollback, release, throw.
PlaceBid_Commit(p) ==
    /\ req[p].pc = "commit"
    /\ req[p].path \in {"socket", "auto"}
    /\ LET r == req[p]
           a == r.auctionId
           st == BidStatements(bids, r.bidId, a, r.userId, r.amount,
                               BidType(r))
           priced == UpdatePrice(auctions[a], r.amount)
       IN  /\ lock' = [lock EXCEPT ![a] = 0]
           /\ \E failed \in BOOLEAN :
                IF failed
                THEN /\ req' = [req EXCEPT ![p] = Returned(r, "db_error")]
                     /\ UNCHANGED <<bids, auctions>>
                ELSE /\ bids' = st.rows
                     /\ auctions' = [auctions EXCEPT ![a] =
                            IF r.newEndTime # NULL
                            THEN UpdateExtendedEnd(priced, r.newEndTime)
                            ELSE priced]
                     /\ req' = [req EXCEPT ![p] = [@ EXCEPT !.pc = "post"]]
    /\ UNCHANGED autoVars
    /\ UNCHANGED <<now, transactions, nextBidId, clk, events>>

\* placeBid after the commit: reload the auction, emit bid_update to the
\* room.  A reload that fails throws into the catch: rollback (after the
\* commit), release, throw.
PlaceBid_Emit(p) ==
    /\ req[p].pc = "post"
    /\ req[p].path \in {"socket", "auto"}
    /\ \E failed \in BOOLEAN :
          IF failed
          THEN /\ req' = [req EXCEPT ![p] = Returned(@, "db_error")]
               /\ UNCHANGED events
          ELSE /\ events' = Emit("bid_update", req[p].auctionId,
                                 req[p].bidId, 0)
               /\ req' = [req EXCEPT ![p] = [@ EXCEPT !.pc = "notify"]]
    /\ UNCHANGED autoVars
    /\ UNCHANGED <<now, auctions, bids, transactions, nextBidId, lock, clk>>

\* Fault: notifyOutbid lets its error out.
OutbidErrorCaught_Rethrown == FALSE

\* the try/catch of notifyOutbid: the error is logged, nothing is thrown
OutbidErrorCaught == TRUE

\* notifyOutbid's SELECT: the bids of other users on the auction that are
\* not winning
OutbidBidders(rows, a, u) ==
    {i \in BidsOf(rows, a) : rows[i].user_id # u /\ ~rows[i].is_winning}

\* await this.notifyOutbid(...), then the audit log and the return.  The
\* SELECT or the notification may fail.  An error that got out of
\* notifyOutbid would reach the catch of placeBid: rollback (after the
\* commit), release, throw.
notifyOutbid(p) ==
    /\ req[p].pc = "notify"
    /\ \E failed \in BOOLEAN :
          req' = [req EXCEPT ![p] =
                    IF failed /\ ~OutbidErrorCaught
                    THEN Returned([@ EXCEPT !.notify = "failed"], "db_error")
                    ELSE [@ EXCEPT !.pc = "return",
                                   !.notify =
                                       IF failed THEN "failed"
                                       ELSE IF OutbidBidders(bids,
                                                             req[p].auctionId,
                                                             req[p].userId) # {}
                                       THEN "sent" ELSE "none"]]
    /\ UNCHANGED autoVars
    /\ UNCHANGED <<now, auctions, bids, transactions, nextBidId, lock, clk,
                   events>>

\* socket.on('place_bid'): io.to(room).emit('bid_update', result) once
\* placeBid has returned.
OnPlaceBid_Emit(p) ==
    /\ req[p].pc = "return"
    /\ req[p].path = "socket"
    /\ events' = Emit("bid_update", req[p].auctionId, req[p].bidId, 0)
    /\ req' = [req EXCEPT ![p] = Returned(@, "accepted")]
    /\ UNCHANGED autoVars
    /\ UNCHANGED <<now, auctions, bids, transactions, nextBidId, lock, clk>>

(***************************************************************************)
(* REST path: POST /api/bids.                                              *)
(***************************************************************************)
\* The checks of the route on the auction row and the user row it read.
PostBidCheck(row, u, amt, t) ==
    IF row.status # "live" THEN "not_active"
    ELSE IF row.end_time < t THEN "not_active"
    ELSE IF amt < RestMinBidAmount(row) THEN "too_low"
    ELSE IF UserStatus(u) # "active" THEN "no_user"
    ELSE IF ~IdentityVerified(u) THEN "not_verified"
    ELSE "ok"

\* The route up to the eligibility checks: SELECT the live auction, the end
\* time check, the minimum bid, SELECT the user.
PostBid_Validate(p, a, u, amt) ==
    /\ FirstIdle(req, p)
    /\ LET row == auctions[a]
           verdict == PostBidCheck(row, u, amt, now)
       IN  req' = [req EXCEPT ![p] =
                     IF verdict = "ok"
                     THEN [Received("rest", a, u, amt) EXCEPT
                               !.pc = "highest"]
                     ELSE Returned(Received("rest", a, u, amt), verdict)]
    /\ UNCHANGED autoVars
    /\ UNCHANGED <<now, auctions, bids, transactions, nextBidId, lock, clk,
                   events>>

\* SELECT ... ORDER BY amount DESC LIMIT 1: the user must not hold the
\* highest bid.
PostBid_CheckHighest(p) ==
    /\ req[p].pc = "highest"
    /\ LET h == HighestBid(bids, req[p].auctionId)
           mine == h # 0 /\ bids[h].user_id = req[p].userId
       IN  req' = [req EXCEPT ![p] =
                     IF mine THEN Returned(@, "already_highest")
                     ELSE [@ EXCEPT !.pc = "tx",
                                    !.previous = IF h = 0 THEN "none"
                                                 ELSE bids[h].user_id]]
    /\ UNCHANGED autoVars
    /\ UNCHANGED <<now, auctions, bids, transactions, nextBidId, lock, clk,
                   events>>

\* The statements of the route's transaction up to the commit: INSERT INTO
\* bids, UPDATE auctions (price, count), the two UPDATEs of is_winning, and,
\* when the highest-bid query had a row, the INSERT of the outbid
\* notification.  A duplicate key or a failed notification fails the
\* statement: rollback, release, status 500.
PostBid_Transaction(p) ==
    /\ req[p].pc = "tx"
    /\ req[p].path = "rest"
    /\ lock[req[p].auctionId] = 0
    /\ LET r == req[p]
           a == r.auctionId
           st == BidStatements(bids, nextBidId, a, r.userId, r.amount,
                               "normal")
       IN  /\ nextBidId' = nextBidId + 1
           /\ \E failed \in BOOLEAN :
                IF st.ok /\ ~(r.previous # "none" /\ failed)
                THEN /\ lock' = [lock EXCEPT ![a] = p]
                     /\ req' = [req EXCEPT ![p] =
                                  [@ EXCEPT !.pc = "commit",
                                            !.bidId = nextBidId,
                                            !.notify =
                                                IF r.previous # "none"
                                                THEN "sent" ELSE "none"]]
                ELSE /\ req' = [req EXCEPT ![p] =
                                  Returned([r EXCEPT !.notify =
                                                IF st.ok THEN "failed"
                                                ELSE "none"],
                                           "db_error")]
                     /\ UNCHANGED lock
    /\ UNCHANGED autoVars
    /\ UNCHANGED <<now, auctions, bids, transactions, clk, events>>

\* connection.commit() of the route.  A commit that fails throws into the
\* catch: rollback, release, status 500.
PostBid_Commit(p) ==
    /\ req[p].pc = "commit"
    /\ req[p].path = "rest"
    /\ LET r == req[p]
           a == r.auctionId
           st == BidStatements(bids, r.bidId, a, r.userId, r.amount,
                               "normal")
       IN  /\ lock' = [lock EXCEPT ![a] = 0]
           /\ \E failed \in BOOLEAN :
                IF failed
                THEN /\ req' = [req EXCEPT ![p] = Returned(r, "db_error")]
                     /\ UNCHANGED <<bids, auctions>>
                ELSE /\ bids' = st.rows
                     /\ auctions' = [auctions EXCEPT ![a] =
                                        UpdatePrice(@, r.amount)]
                     /\ req' = [req EXCEPT ![p] = [@ EXCEPT !.pc = "post"]]
    /\ UNCHANGED autoVars
    /\ UNCHANGED <<now, transactions, nextBidId, clk, events>>

\* The route after the commit: reload the auction, res.json({success: true}).
\* A reload that fails throws into the catch: rollback (after the commit),
\* release, status 500.
PostBid_Respond(p) ==
    /\ req[p].pc = "post"
    /\ req[p].path = "rest"
    /\ \E failed \in BOOLEAN :
          req' = [req EXCEPT ![p] =
                    Returned(@, IF failed THEN "db_error" ELSE "accepted")]
    /\ UNCHANGED autoVars
    /\ UNCHANGED <<now, auctions, bids, transactions, nextBidId, lock, clk,
                   events>>

(***************************************************************************)
(* The monitoring clock: setInterval(checkAuctionStatus, 1000).  The        *)
(* callback is async and is not awaited, so an invocation may still be     *)
(* running when the next one starts; each works from the rows it selected. *)
(***************************************************************************)
\* Fault: the loop without its branch for live auctions.
Due_StartOnly(row, t) ==
    IF row.status = "scheduled" /\ t >= row.start_time THEN "start"
    ELSE "none"

\* The branch checkAuctionStatus takes for a selected row, at its own `now`
Due(row, t) ==
    IF row.status = "scheduled" /\ t >= row.start_time THEN "start"
    ELSE IF row.status = "live" /\ t >= EffectiveEnd(row) THEN "end"
    ELSE "none"

RECURSIVE Ordered(_, _)
\* The selected rows in primary key order, each with the branch the loop
\* takes for it (decided by the selected row and the invocation's `now`);
\* rows for which it takes none are left out.
Ordered(S, t) ==
    IF S = {} THEN <<>>
    ELSE LET m == CHOOSE x \in S : \A y \in S : x <= y
         IN  <<[id |-> m, due |-> Due(auctions[m], t)]>>
                 \o Ordered(S \ {m}, t)

\* for (const auction of activeAuctions): on to the next selected auction
NextAuction(c) ==
    LET rest == Tail(c.todo)
    IN  IF rest = <<>> THEN IdleTick
        ELSE [c EXCEPT !.todo = rest, !.pc = Head(rest).due,
                       !.result = "null", !.winningBidId = NULL,
                       !.winningAmount = 0]

\* checkAuctionStatus: now = new Date(), SELECT the scheduled and live
\* auctions, and enter the loop at the first one that is due.
checkAuctionStatus(t) ==
    /\ FirstIdle(clk, t)
    /\ LET due == {a \in AuctionIds : Due(auctions[a], now) # "none"}
           todo == Ordered(due, now)
       IN  /\ due # {}
           /\ clk' = [clk EXCEPT ![t] =
                        [@ EXCEPT !.todo = todo, !.pc = Head(todo).due]]
    /\ UNCHANGED autoVars
    /\ UNCHANGED <<now, auctions, bids, transactions, nextBidId, lock, req,
                   events>>

\* UPDATE auctions SET status = 'live', start_time = NOW() WHERE id = ?
UpdateStarted(row, t) ==
    [row EXCEPT !.status = "live", !.start_time = t]

\* startAuction: the UPDATE, then auction_started to the room.
startAuction(t) ==
    /\ clk[t].pc = "start"
    /\ LET a == Head(clk[t].todo).id
       IN  /\ lock[a] = 0
           /\ auctions' = [auctions EXCEPT ![a] = UpdateStarted(@, now)]
           /\ events' = Emit("auction_started", a, 0, 0)
    /\ clk' = [clk EXCEPT ![t] = NextAuction(@)]
    /\ UNCHANGED autoVars
    /\ UNCHANGED <<now, bids, transactions, nextBidId, lock, req>>

\* The result endAuction computes from the auction row and the winning bid
\* it reads.
EndResult(row, rows, a) ==
    IF row.current_bid_count > 0
    THEN LET w == getWinningBid(rows, a)
         IN  IF w # 0 /\ rows[w].amount >= row.reserve_price
             THEN [result |-> "sold", winningBidId |-> rows[w].id]
             ELSE [result |-> "reserve_not_met", winningBidId |-> NULL]
    ELSE [result |-> "no_bids", winningBidId |-> NULL]

\* endAuction, its reads: getAuctionDetails and getWinningBid.
endAuction_Read(t) ==
    /\ clk[t].pc = "end"
    /\ LET a == Head(clk[t].todo).id
           r == EndResult(auctions[a], bids, a)
       IN  clk' = [clk EXCEPT ![t] =
                     [@ EXCEPT !.pc = "end_write", !.result = r.result,
                               !.winningBidId = r.winningBidId,
                               !.winningAmount = auctions[a].current_price]]
    /\ UNCHANGED autoVars
    /\ UNCHANGED <<now, auctions, bids, transactions, nextBidId, lock, req,
                   events>>

\* UPDATE auctions SET status = 'ended', result = ?, winning_bid_id = ?,
\* ended_at = NOW() WHERE id = ?
UpdateEnded(row, result, winningBidId) ==
    [row EXCEPT !.status = "ended", !.result = result,
                !.winning_bid_id = winningBidId]

\* endAuction, its UPDATE, then auction_ended to the room.
endAuction_Update(t) ==
    /\ clk[t].pc = "end_write"
    /\ LET c == clk[t]
           a == Head(c.todo).id
       IN  /\ lock[a] = 0
           /\ auctions' = [auctions EXCEPT ![a] =
                             UpdateEnded(@, c.result, c.winningBidId)]
           /\ events' = Append(events,
                  [type |-> "auction_ended", auctionId |-> a,
                   bidId |-> c.winningBidId, value |-> c.winningAmount,
                   result |-> c.result])
           /\ clk' = [clk EXCEPT ![t] =
                        IF c.result = "sold" /\ c.winningBidId # NULL
                        THEN [c EXCEPT !.pc = "settle"]
                        ELSE NextAuction(c)]
    /\ UNCHANGED autoVars
    /\ UNCHANGED <<now, bids, transactions, nextBidId, lock, req>>

\* getBidDetails: SELECT * FROM bids WHERE id = ?   (0: no row)
getBidDetails(rows, id) ==
    LET s == {i \in 1..Len(rows) : rows[i].id = id}
    IN  IF s = {} THEN 0 ELSE CHOOSE i \in s : TRUE

\* createTransaction: reload the auction and the bid, INSERT INTO
\* transactions.  An error (the bid is not found, the INSERT fails) is
\* caught and logged: nothing is written and endAuction goes on.
createTransaction(t) ==
    /\ clk[t].pc = "settle"
    /\ LET c == clk[t]
           a == Head(c.todo).id
           b == getBidDetails(bids, c.winningBidId)
       IN  /\ \E inserted \in BOOLEAN :
                transactions' =
                  IF b = 0 \/ ~inserted THEN transactions
                  ELSE Append(transactions,
                           [auction_id |-> a, bid_id |-> c.winningBidId,
                            user_id |-> bids[b].user_id,
                            amount |-> auctions[a].current_price])
           /\ clk' = [clk EXCEPT ![t] = NextAuction(c)]
    /\ UNCHANGED autoVars
    /\ UNCHANGED <<now, auctions, bids, nextBidId, lock, req, events>>

(***************************************************************************)
(* Auto-bidding.  The service keeps its agents in the Map autoBids         *)
(* (setup_auto_bid over the socket); the REST routes keep theirs in the    *)
(* table auto_bids.  processAutoBids reads the Map only, and nothing in    *)
(* the repository calls it: a pass is started here by its caller, whoever  *)
(* that is, with the auction's current price as newBidAmount.              *)
(***************************************************************************)
AutoBidUsers == {"alice", "bob"}
RestAutoBidUsers == {"alice"}
MaxAmounts == {360000000, 400000000}

AutoBidKeyAt(m, a, u) == {i \in 1..Len(m) : m[i].auctionId = a /\ m[i].userId = u}

\* Map.prototype.set: an existing key keeps its place, a new one goes last
MapSet(m, entry) ==
    IF AutoBidKeyAt(m, entry.auctionId, entry.userId) # {}
    THEN [i \in 1..Len(m) |->
            IF i \in AutoBidKeyAt(m, entry.auctionId, entry.userId)
            THEN entry ELSE m[i]]
    ELSE Append(m, entry)

\* setupAutoBid: a maxAmount <= 0 throws and changes nothing; no other
\* check is made
setupAutoBid(a, u, maxAmount) ==
    /\ maxAmount > 0
    /\ autoBids' = MapSet(autoBids, [auctionId |-> a, userId |-> u,
                                     maxAmount |-> maxAmount, currentBid |-> 0,
                                     active |-> TRUE])
    /\ cancelled' = cancelled \ {<<a, u>>}
    /\ UNCHANGED <<now, auctions, bids, transactions, nextBidId, lock, req, clk,
                   events, auto_bids, resolver>>

AutoBidRows(rows, a, u) == {r \in rows : r.user_id = u /\ r.auction_id = a}

\* POST /api/bids/auto-bid: the auction must be live and maxAmount above its
\* current price; INSERT ... ON DUPLICATE KEY UPDATE
PostAutoBid(a, u, maxAmount) ==
    /\ auctions[a].status = "live"
    /\ maxAmount > auctions[a].current_price
    /\ auto_bids' = (auto_bids \ AutoBidRows(auto_bids, a, u))
                       \cup {[user_id |-> u, auction_id |-> a,
                              max_amount |-> maxAmount]}
    /\ cancelled' = cancelled \ {<<a, u>>}
    /\ UNCHANGED <<now, auctions, bids, transactions, nextBidId, lock, req, clk,
                   events, autoBids, resolver>>

\* DELETE /api/bids/auto-bid/:auctionId: deletes the row of auto_bids; 404
\* and no change when there is none
DeleteAutoBid(a, u) ==
    /\ AutoBidRows(auto_bids, a, u) # {}
    /\ auto_bids' = auto_bids \ AutoBidRows(auto_bids, a, u)
    /\ cancelled' = cancelled \cup {<<a, u>>}
    /\ UNCHANGED <<now, auctions, bids, transactions, nextBidId, lock, req, clk,
                   events, autoBids, resolver>>

\* the filter of processAutoBids
Selected(m, a, newBidAmount) ==
    SelectSeq(m, LAMBDA e : e.auctionId = a /\ e.active
                            /\ e.maxAmount > newBidAmount)

RemoveAt(s, i) == [j \in 1..(Len(s) - 1) |-> IF j < i THEN s[j] ELSE s[j + 1]]

\* Array.prototype.sort by maxAmount descending (stable)
RECURSIVE HighestMaxFirst(_)
HighestMaxFirst(s) ==
    IF s = <<>> THEN <<>>
    ELSE LET i == CHOOSE k \in 1..Len(s) :
                     /\ \A j \in 1..Len(s) : s[j].maxAmount <= s[k].maxAmount
                     /\ \A j \in 1..(k - 1) : s[j].maxAmount < s[k].maxAmount
         IN  <<s[i]>> \o HighestMaxFirst(RemoveAt(s, i))

\* processAutoBids, entry: the agents to serve, taken once
processAutoBids_Start(a) ==
    /\ resolver.pc = "idle"
    /\ LET newBidAmount == auctions[a].current_price
           todo == HighestMaxFirst(Selected(autoBids, a, newBidAmount))
       IN  /\ todo # <<>>
           /\ resolver' = [pc |-> "loop", auctionId |-> a,
                           newBidAmount |-> newBidAmount, todo |-> todo,
                           slot |-> 0, placed |-> 0]
    /\ UNCHANGED <<now, auctions, bids, transactions, nextBidId, lock, req, clk,
                   events, autoBids, auto_bids, cancelled>>

\* Fault: the loop does not move on to the next agent.
NextAgent_SameAgent(r) == [r EXCEPT !.pc = "loop", !.slot = 0]

\* the next agent of the loop, or the end of the pass
NextAgent(r) ==
    IF Len(r.todo) > 1 THEN [r EXCEPT !.pc = "loop", !.todo = Tail(@), !.slot = 0]
    ELSE IdleResolver

WithinMaxAmount_Unchecked(nextBidAmount, autoBid) == TRUE

\* the test of the loop body
WithinMaxAmount(nextBidAmount, autoBid) == nextBidAmount <= autoBid.maxAmount

\* The calls of placeBid by processAutoBids follow one another (await): they
\* are kept in one entry of req, the first idle one at the first call.
ResolverSlot(p) ==
    IF \E q \in DOMAIN req : req[q].path = "auto"
    THEN req[p].path = "auto" /\ req[p].pc = "done"
    ELSE FirstIdle(req, p)

\* loop body, test passed: placeBid is called for the agent; when placeBid
\* throws on one of its checks the catch of processAutoBids ends the pass
processAutoBids_Bid(p) ==
    /\ resolver.pc = "loop"
    /\ ResolverSlot(p)
    /\ nextBidId <= MaxBids
    /\ LET a == resolver.auctionId
           autoBid == Head(resolver.todo)
           nextBidAmount == calculateNextBid(resolver.newBidAmount)
           verdict == PlaceBidCheck(auctions[a], autoBid.userId, nextBidAmount)
           r == Received("auto", a, autoBid.userId, nextBidAmount)
       IN  /\ WithinMaxAmount(nextBidAmount, autoBid)
           /\ IF verdict = "ok"
              THEN /\ req' = [req EXCEPT ![p] =
                                [r EXCEPT !.pc = "tx",
                                          !.auction = Fields(auctions[a])]]
                   /\ resolver' = [resolver EXCEPT !.pc = "wait", !.slot = p]
              ELSE /\ req' = [req EXCEPT ![p] = Returned(r, verdict)]
                   /\ resolver' = IdleResolver
    /\ UNCHANGED <<now, auctions, bids, transactions, nextBidId, lock, clk,
                   events, autoBids, auto_bids, cancelled>>

\* loop body, test failed: the agent is passed over
processAutoBids_Skip ==
    /\ resolver.pc = "loop"
    /\ ~WithinMaxAmount(calculateNextBid(resolver.newBidAmount),
                        Head(resolver.todo))
    /\ resolver' = NextAgent(resolver)
    /\ UNCHANGED <<now, auctions, bids, transactions, nextBidId, lock, req, clk,
                   events, autoBids, auto_bids, cancelled>>

\* the await of placeBid resumes.  Returned: currentBid is written to the
\* agent object the pass holds, the object is put back under its key and
\* newBidAmount moves up.  Thrown (rollback in the transaction): the catch of
\* processAutoBids logs the error and the pass is over.
processAutoBids_Resume ==
    /\ resolver.pc = "wait"
    /\ req[resolver.slot].pc \in {"return", "done"}
    /\ LET autoBid == Head(resolver.todo)
           nextBidAmount == req[resolver.slot].amount
       IN  IF req[resolver.slot].pc = "return"
           THEN /\ autoBids' = MapSet(autoBids,
                                  [autoBid EXCEPT !.currentBid = nextBidAmount])
                /\ resolver' = NextAgent([resolver EXCEPT
                                             !.newBidAmount = nextBidAmount,
                                             !.placed = @ + 1])
                /\ req' = [req EXCEPT ![resolver.slot] = Returned(@, "accepted")]
           ELSE /\ resolver' = IdleResolver
                /\ UNCHANGED <<autoBids, req>>
    /\ UNCHANGED <<now, auctions, bids, transactions, nextBidId, lock, clk,
                   events, auto_bids, cancelled>>

(***************************************************************************)
(* The specification.                                                      *)
(***************************************************************************)
Next ==
    \/ AdvanceTime
    \/ \E p \in DOMAIN req, a \in AuctionIds, u \in Users, amt \in Amounts :
           PlaceBid_Validate(p, a, u, amt)
    \/ \E p \in DOMAIN req, a \in AuctionIds, u \in Users, amt \in Amounts :
           PostBid_Validate(p, a, u, amt)
    \/ \E p \in DOMAIN req : PlaceBid_Transaction(p)
    \/ \E p \in DOMAIN req : PlaceBid_Commit(p)
    \/ \E p \in DOMAIN req : PlaceBid_Emit(p)
    \/ \E p \in DOMAIN req : notifyOutbid(p)
    \/ \E p \in DOMAIN req : OnPlaceBid_Emit(p)
    \/ \E p \in DOMAIN req : PostBid_CheckHighest(p)
    \/ \E p \in DOMAIN req : PostBid_Transaction(p)
    \/ \E p \in DOMAIN req : PostBid_Commit(p)
    \/ \E p \in DOMAIN req : PostBid_Respond(p)
    \/ \E t \in DOMAIN clk : checkAuctionStatus(t)
    \/ \E t \in DOMAIN clk : startAuction(t)
    \/ \E t \in DOMAIN clk : endAuction_Read(t)
    \/ \E t \in DOMAIN clk : endAuction_Update(t)
    \/ \E t \in DOMAIN clk : createTransaction(t)

Spec == Init /\ [][Next]_vars

\* The same with the auto-bid operations.
NextAuto ==
    \/ Next
    \/ \E a \in AuctionIds, u \in AutoBidUsers, m \in MaxAmounts :
           setupAutoBid(a, u, m)
    \/ \E a \in AuctionIds, u \in RestAutoBidUsers, m \in MaxAmounts :
           PostAutoBid(a, u, m)
    \/ \E a \in AuctionIds, u \in RestAutoBidUsers : DeleteAutoBid(a, u)
    \/ \E a \in AuctionIds : processAutoBids_Start(a)
    \/ \E p \in DOMAIN req : processAutoBids_Bid(p)
    \/ processAutoBids_Skip
    \/ processAutoBids_Resume

\* One request, one clock invocation, no reserve, no auto-extend, the
\* increment percentage calculateNextBid assumes.
InitAuto ==
    /\ InitWith(1, 1, {0}, {FALSE})
    /\ \A a \in AuctionIds : auctions[a].bid_increment_percentage = 5
SpecAuto == InitAuto /\ [][NextAuto]_vars

\* One bid submission, overlapping clock invocations.
InitClock == InitWith(1, MaxOverlap, ReservePrices, BOOLEAN)
SpecClock == InitClock /\ [][Next]_vars

\* Fairness: time passes; setInterval keeps firing the clock callback and
\* every started handler or callback runs on to its end (the database
\* answers).  Nothing obliges a bidder to submit a bid.
ClockStep(t) ==
    /\ t \in DOMAIN clk
    /\ \/ checkAuctionStatus(t)
       \/ startAuction(t)
       \/ endAuction_Read(t)
       \/ endAuction_Update(t)
       \/ createTransaction(t)

RequestStep(p) ==
    /\ p \in DOMAIN req
    /\ \/ PlaceBid_Transaction(p)
       \/ PlaceBid_Commit(p)
       \/ PlaceBid_Emit(p)
       \/ notifyOutbid(p)
       \/ OnPlaceBid_Emit(p)
       \/ PostBid_CheckHighest(p)
       \/ PostBid_Transaction(p)
       \/ PostBid_Commit(p)
       \/ PostBid_Respond(p)

Fairness ==
    /\ WF_vars(AdvanceTime)
    /\ \A t \in 1..MaxOverlap : WF_vars(ClockStep(t))
    /\ \A p \in 1..MaxRequests : WF_vars(RequestStep(p))

FairSpec == InitClock /\ [][Next]_vars /\ Fairness

(***************************************************************************)
(* Properties.                                                             *)
(***************************************************************************)
WinningBids(a) == {i \in BidsOf(bids, a) : bids[i].is_winning}

\* C1: once an auction has a bid, exactly one of its bids has
\* is_winning = TRUE, in every reachable state, whatever the interleaving
\* of socket and REST submissions.
ExactlyOneWinningBid ==
    \A a \in AuctionIds :
        BidsOf(bids, a) # {} => Cardinality(WinningBids(a)) = 1

\* A bid is committed while another submission, validated against the
\* price before it, is still waiting to run its transaction.
BidCommittedWhileAnotherWaits ==
    \E a \in AuctionIds, q \in DOMAIN req :
        /\ Cardinality(BidsOf(bids, a)) = 1
        /\ Cardinality(WinningBids(a)) = 1
        /\ req[q].pc = "tx" /\ req[q].auctionId = a
        /\ req[q].amount < auctions[a].current_price

\* C2: no step lowers an auction's current_price.
PriceNeverDecreases ==
    [][\A a \in AuctionIds :
          auctions'[a].current_price >= auctions[a].current_price]_vars

\* The price has been raised by a bid and a lower submission that ran
\* concurrently has been through its transaction.
PriceRaisedLowerBidProcessed ==
    \E a \in AuctionIds, q \in DOMAIN req :
        /\ auctions[a].current_price > StartingPrice
        /\ req[q].outcome = "db_error" /\ req[q].auctionId = a
        /\ req[q].amount < auctions[a].current_price

AllProcessed == \A p \in DOMAIN req : req[p].pc = "done"

\* C3: when every submitted bid has been processed, current_price of an
\* auction with committed bids is the largest amount among them.
FinalPriceIsMaxAccepted ==
    AllProcessed =>
        \A a \in AuctionIds :
            BidsOf(bids, a) # {} =>
                auctions[a].current_price = bids[HighestBid(bids, a)].amount

\* Two concurrent submissions have both been processed: one is committed,
\* the other failed in its transaction.
TwoConcurrentBidsProcessed ==
    /\ AllProcessed
    /\ \E p, q \in DOMAIN req :
           /\ req[p].outcome = "accepted" /\ req[q].outcome = "db_error"
           /\ req[p].auctionId = req[q].auctionId
           /\ auctions[req[p].auctionId].current_price = req[p].amount

\* C4: no step moves an auction's effective end time backwards.
EffectiveEndNeverDecreases ==
    [][\A a \in AuctionIds :
          EffectiveEnd(auctions'[a]) >= EffectiveEnd(auctions[a])]_vars

\* A bid has committed an extension, and the clock has ended the auction.
ExtendedThenEnded ==
    \E a \in AuctionIds :
        /\ auctions[a].extended_end_time # NULL
        /\ auctions[a].extended_end_time > auctions[a].end_time
        /\ auctions[a].status = "ended"

EventsOf(type, a) ==
    {i \in 1..Len(events) : events[i].type = type /\ events[i].auctionId = a}

SettlementsOf(a) ==
    {i \in 1..Len(transactions) : transactions[i].auction_id = a}

\* C5: finalization happens once: an auction has at most one auction_ended
\* event and at most one transactions row, also when overlapping clock
\* invocations both selected it as live.
SettledOnce ==
    \A a \in AuctionIds :
        /\ Cardinality(EventsOf("auction_ended", a)) <= 1
        /\ Cardinality(SettlementsOf(a)) <= 1

StatusRank(status) ==
    IF status = "scheduled" THEN 0 ELSE IF status = "live" THEN 1 ELSE 2

\* C6: status only moves forward along scheduled -> live -> ended; an
\* ended auction never becomes live again.
StatusOnlyForward ==
    [][\A a \in AuctionIds :
          StatusRank(auctions'[a].status) >= StatusRank(auctions[a].status)]_vars

\* The auction is open to bids at time t: live and not past its effective
\* end time.
Active(row, t) == row.status = "live" /\ t <= EffectiveEnd(row)

\* C7: a handler lets a bid through its checks only while the auction is
\* live and now <= its effective end time, and turns a bid away as
\* auction-not-active only when the auction is not live or now is past its
\* effective end time.
BidsPassOnlyWhileActive ==
    [][\A p \in DOMAIN req :
          (req[p].pc = "idle" /\ req'[p].pc # "idle") =>
              LET r == req'[p]
                  row == auctions[r.auctionId]
              IN  /\ r.pc \in {"tx", "highest"} => Active(row, now)
                  /\ r.outcome = "not_active" => ~Active(row, now)]_vars

\* C8: the clock moves an auction from scheduled to live only when
\* now >= start_time and from live to ended only when now >= the effective
\* end time the row has at that moment.
ClockTransitionsOnlyWhenDue ==
    [][\A a \in AuctionIds :
          /\ (auctions[a].status = "scheduled"
                  /\ auctions'[a].status = "live")
                 => now >= auctions[a].start_time
          /\ (auctions[a].status = "live"
                  /\ auctions'[a].status = "ended")
                 => now >= EffectiveEnd(auctions[a])]_vars

MinAcceptable(row) ==
    row.current_price
        + Max(MIN_INCREMENT,
              CeilPercent(row.current_price, row.bid_increment_percentage))

\* C10: a bid is turned away as too low exactly when its amount is below
\* current_price + max(floor, ceil(current_price * percentage / 100)) with
\* the auction's own bid_increment_percentage.
TooLowIffBelowMinimum ==
    [][\A p \in DOMAIN req :
          (req[p].pc = "idle" /\ req'[p].pc # "idle") =>
              LET r == req'[p]
                  row == auctions[r.auctionId]
              IN  /\ r.outcome = "too_low" => r.amount < MinAcceptable(row)
                  /\ r.pc \in {"tx", "highest"}
                         => r.amount >= MinAcceptable(row)]_vars

\* The bidder of the auction's winning bid ("none": no winning bid).
WinningBidder(a) ==
    LET w == getWinningBid(bids, a)
    IN  IF w = 0 THEN "none" ELSE bids[w].user_id

\* C11: a bid from the bidder who holds the auction's winning bid does not
\* get through the checks of either path: no handler starts a bid
\* transaction for the current winning bidder.
WinningBidderTurnedAway ==
    [][\A p \in DOMAIN req :
          (req[p].pc # "tx" /\ req'[p].pc = "tx") =>
              req'[p].userId # WinningBidder(req'[p].auctionId)]_vars

\* C12: every committed bid belongs to a bidder whose account is active
\* and whose identity is verified.
EveryBidderEligible ==
    \A i \in 1..Len(bids) :
        /\ UserStatus(bids[i].user_id) = "active"
        /\ IdentityVerified(bids[i].user_id)

\* C13: when a handler has run the statements of a bid's transaction on an
\* auction with auto-extend enabled and less than the extend window
\* remained, the transaction carries the new end time now + the extend
\* duration, on either path.
AcceptedBidExtends ==
    [][\A p \in DOMAIN req :
          (req[p].pc = "tx" /\ req'[p].pc = "commit") =>
              LET row == auctions[req[p].auctionId]
              IN  (row.auto_extend_enabled
                      /\ EffectiveEnd(row) - now < row.auto_extend_minutes)
                  => req'[p].newEndTime = now + row.auto_extend_minutes]_vars

\* The result the rules give an ended auction, from its row.
ExpectedResult(row) ==
    IF row.current_bid_count = 0 THEN "no_bids"
    ELSE IF row.reserve_price > 0 /\ row.current_price < row.reserve_price
    THEN "reserve_not_met"
    ELSE "sold"

\* C14: an ended auction's result is no_bids if its bid count is 0,
\* otherwise reserve_not_met if reserve_price > 0 and current_price is below
\* it, otherwise sold; result is null for every auction that is not ended.
ResultAsSpecified ==
    \A a \in AuctionIds :
        IF auctions[a].status = "ended"
        THEN auctions[a].result = ExpectedResult(auctions[a])
        ELSE auctions[a].result = "null"

ClockIdle == \A t \in DOMAIN clk : clk[t].pc = "idle"

\* C15: once the clock has finished, an ended auction with result sold has
\* exactly one transactions row, carrying its winning bid id and its final
\* price, and an auction with result reserve_not_met or no_bids has none.
SoldSettledExactlyOnce ==
    ClockIdle =>
        \A a \in AuctionIds :
            /\ (auctions[a].status = "ended" /\ auctions[a].result = "sold")
                   => /\ Cardinality(SettlementsOf(a)) = 1
                      /\ \A i \in SettlementsOf(a) :
                             /\ transactions[i].bid_id
                                    = auctions[a].winning_bid_id
                             /\ transactions[i].amount
                                    = auctions[a].current_price
            /\ auctions[a].result \in {"reserve_not_met", "no_bids"}
                   => SettlementsOf(a) = {}

Eligible(u) == UserStatus(u) = "active" /\ IdentityVerified(u)

\* the agents of the service that could answer a bid of amt by bidder u on
\* auction a: active, of another, eligible bidder, with a ceiling that covers
\* the next step
Answering(m, a, u, amt) ==
    {i \in 1..Len(m) : /\ m[i].auctionId = a
                       /\ m[i].active
                       /\ m[i].userId # u
                       /\ Eligible(m[i].userId)
                       /\ calculateNextBid(amt) <= m[i].maxAmount}

\* C16: when a manual bid (socket or REST) returns as accepted on an auction
\* that is still live and open, and another eligible bidder has an active
\* auto-bid whose ceiling covers the next step above that bid, then by the
\* time the submission returns an automatic bid has been placed for that
\* bidder and that bidder holds the winning bid.
AutoBidAnswersBeforeReturn ==
    [][\A p \in DOMAIN req :
          (/\ req[p].pc \notin {"idle", "done"}
           /\ req[p].path \in {"socket", "rest"}
           /\ req'[p].pc = "done"
           /\ req'[p].outcome = "accepted"
           /\ auctions[req[p].auctionId].status = "live"
           /\ now < EffectiveEnd(auctions[req[p].auctionId]))
          => \A i \in Answering(autoBids, req[p].auctionId, req[p].userId,
                                req[p].amount) :
                /\ WinningBidder(req[p].auctionId) = autoBids[i].userId
                /\ \E b \in BidsOf(bids, req[p].auctionId) :
                      /\ bids[b].bid_type = "auto"
                      /\ bids[b].user_id = autoBids[i].userId
                      /\ bids[b].amount > req[p].amount]_vars

\* the bid rows of type 'auto' that the step commits
NewAutoBids == {i \in 1..Len(bids') : i > Len(bids) /\ bids'[i].bid_type = "auto"}

\* C17: every bid committed with bid type 'auto' is committed for the agent
\* the resolver pass is serving, and its amount is less than or equal to the
\* maxAmount of that agent, as the pass holds it.
AutoBidWithinMaxAmount ==
    [][\A i \in NewAutoBids :
          /\ resolver.pc = "wait"
          /\ bids'[i].user_id = Head(resolver.todo).userId
          /\ bids'[i].amount <= Head(resolver.todo).maxAmount]_vars

\* a pass that has placed a bid for one agent has come to an agent whose
\* ceiling the next step would exceed
StepExceedsCeilingAfterAutoBid ==
    /\ resolver.pc = "loop"
    /\ \E i \in 1..Len(bids) : bids[i].bid_type = "auto"
    /\ calculateNextBid(resolver.newBidAmount) > Head(resolver.todo).maxAmount

\* the entries of the Map that a registration step has created or replaced
\* (a resolver pass writes to the Map as well, and moves on as it does)
RegisteredInMap ==
    IF resolver' # resolver THEN {}
    ELSE {i \in 1..Len(autoBids') : i > Len(autoBids) \/ autoBids'[i] # autoBids[i]}

\* C18: no registration creates or changes an agent whose ceiling is less than
\* or equal to the auction's current price, in the service's Map (socket
\* setup_auto_bid) or in the table auto_bids (POST /api/bids/auto-bid).
AutoBidCeilingAbovePrice ==
    [][/\ \A i \in RegisteredInMap :
             autoBids'[i].maxAmount > auctions[autoBids'[i].auctionId].current_price
       /\ \A r \in auto_bids' \ auto_bids :
             r.max_amount > auctions[r.auction_id].current_price]_vars

\* C19: a resolver pass calls placeBid for no bidder whose auto-bid on the
\* auction has been cancelled (DELETE /api/bids/auto-bid/:auctionId answered
\* with success) and not registered again since.
NoAutoBidAfterCancel ==
    [][(resolver.pc = "loop" /\ resolver'.pc = "wait")
          => <<resolver.auctionId, Head(resolver.todo).userId>> \notin cancelled]_vars

\* C20: in the order of emission to an auction's room, no bid_update follows
\* the auction_ended of that auction.
NoBidUpdateAfterAuctionEnded ==
    \A i, j \in 1..Len(events) :
        (i < j /\ events[i].auctionId = events[j].auctionId
               /\ events[i].type = "auction_ended")
            => events[j].type # "bid_update"

\* the bid a request inserted is in the ledger, winning, and counted
Committed(r) ==
    /\ \E i \in 1..Len(bids) : bids[i].id = r.bidId /\ bids[i].is_winning
    /\ auctions[r.auctionId].current_price = r.amount
    /\ auctions[r.auctionId].current_bid_count >= 1

LastBid(a) ==
    IF BidsOf(bids, a) = {} THEN 0
    ELSE CHOOSE i \in BidsOf(bids, a) : \A j \in BidsOf(bids, a) : j <= i

\* C22: in every state, the current_price of an auction without bids is its
\* starting price, and that of an auction with bids is the amount of its most
\* recently committed bid, which is flagged is_winning.
PriceIsLastBidAmount ==
    \A a \in AuctionIds :
        IF LastBid(a) = 0 THEN auctions[a].current_price = StartingPrice
        ELSE /\ bids[LastBid(a)].is_winning
             /\ auctions[a].current_price = bids[LastBid(a)].amount

PriceMovedToBidAmount ==
    \E a \in AuctionIds : /\ LastBid(a) # 0
                          /\ auctions[a].current_price = bids[LastBid(a)].amount
                          /\ auctions[a].current_price > StartingPrice

\* C23: in every state, current_bid_count is the number of bid rows of the
\* auction; a rejected or rolled-back submission leaves both as they were.
BidCountIsLedgerSize ==
    \A a \in AuctionIds :
        auctions[a].current_bid_count = Cardinality(BidsOf(bids, a))

CountedOnceDespiteRollback ==
    /\ \E a \in AuctionIds : auctions[a].current_bid_count = 1
    /\ \E p \in DOMAIN req : req[p].pc = "done" /\ req[p].outcome = "db_error"

\* the is_winning flags of an auction's bids, by bid id
WinningFlags(rows, a) == {<<rows[i].id, rows[i].is_winning>> : i \in BidsOf(rows, a)}

\* C24: once an auction is ended, its current_price, its current_bid_count
\* and the is_winning flags of its bids never change again (no bid commits
\* after the finalization); an ended auction with result no_bids has no bid,
\* and the winning_bid_id of a sold one is the bid flagged is_winning, whose
\* amount is the final current_price.
FinalizationAccountsForEveryBid ==
    [][\A a \in AuctionIds :
          auctions[a].status = "ended"
             => /\ auctions'[a].current_price = auctions[a].current_price
                /\ auctions'[a].current_bid_count = auctions[a].current_bid_count
                /\ WinningFlags(bids', a) = WinningFlags(bids, a)
                /\ auctions[a].result = "no_bids" => BidsOf(bids, a) = {}
                /\ auctions[a].result = "sold"
                      => \E i \in BidsOf(bids, a) :
                            /\ bids[i].id = auctions[a].winning_bid_id
                            /\ bids[i].is_winning
                            /\ bids[i].amount = auctions[a].current_price]_vars

\* C25: the effective end time of an auction changes only in the commit of a
\* bid on that auction, and only when auto-extend is enabled and the time
\* remaining is less than the extend window; every other step, and every
\* other accepted bid, leaves it as it was.
EffectiveEndChangesOnlyByExtension ==
    [][\A a \in AuctionIds :
          EffectiveEnd(auctions'[a]) # EffectiveEnd(auctions[a])
             => /\ auctions[a].auto_extend_enabled
                /\ EffectiveEnd(auctions[a]) - now < auctions[a].auto_extend_minutes
                /\ \E p \in DOMAIN req : /\ req[p].auctionId = a
                                         /\ req[p].pc = "commit"
                                         /\ req'[p].pc = "post"]_vars

\* a bid accepted with auto-extend enabled and time to spare: the end time
\* is as it was
AcceptedBidLeftEndAlone ==
    \E p \in DOMAIN req :
        /\ req[p].pc = "done" /\ req[p].outcome = "accepted"
        /\ req[p].path = "socket"
        /\ auctions[req[p].auctionId].extended_end_time = NULL
        /\ auctions[req[p].auctionId].auto_extend_enabled
        /\ auctions[req[p].auctionId].current_bid_count = 1

\* the step is a call of placeBid by the resolver pass
ResolverCallsPlaceBid ==
    /\ resolver.pc = "loop"
    /\ \E p \in DOMAIN req : req'[p].path = "auto" /\ req'[p] # req[p]

\* C26: the resolver never calls placeBid for an agent whose bidder holds
\* the auction's winning bid at that moment.
NoAutoBidForTheLeader ==
    [][ResolverCallsPlaceBid
          => Head(resolver.todo).userId # WinningBidder(resolver.auctionId)]_vars

\* C27: in a resolver pass placeBid is called for one agent only, the one
\* with the highest ceiling among the agents the pass serves (the earliest
\* entry of the Map among equals): no call follows a bid the pass has placed.
OneAgentRespondsPerPass ==
    [][ResolverCallsPlaceBid
          => /\ resolver.placed = 0
             /\ \A j \in 1..Len(resolver.todo) :
                   resolver.todo[j].maxAmount <= Head(resolver.todo).maxAmount]_vars

\* the step passes over the agent the pass has come to, because the next
\* bid would exceed its ceiling
ResolverPassesOver ==
    /\ resolver.pc = "loop"
    /\ calculateNextBid(resolver.newBidAmount) > Head(resolver.todo).maxAmount
    /\ resolver' # resolver

\* C28: when the next bid would exceed the ceiling of the agent the pass has
\* come to, no bid is placed for it and the agent is inactive afterwards; the
\* resolver calls placeBid for active agents only.
CeilingExceededDeactivates ==
    [][/\ ResolverPassesOver
          => /\ \A i \in AutoBidKeyAt(autoBids', resolver.auctionId,
                                      Head(resolver.todo).userId) :
                    ~autoBids'[i].active
             /\ \A p \in DOMAIN req : req'[p].path = "auto" => req'[p] = req[p]
       /\ ResolverCallsPlaceBid
          => \A i \in AutoBidKeyAt(autoBids, resolver.auctionId,
                                   Head(resolver.todo).userId) :
                 autoBids[i].active]_vars

\* the agents registered with the service for an auction
AgentsOf(m, a) == {i \in 1..Len(m) : m[i].auctionId = a}

\* the highest ceiling among the agents of an auction: those registered and
\* those the pass in progress holds
MaxCeiling(a) ==
    LET s == {autoBids[i].maxAmount : i \in AgentsOf(autoBids, a)}
             \cup {resolver.todo[j].maxAmount : j \in 1..Len(resolver.todo)}
    IN  IF s = {} THEN 0 ELSE CHOOSE m \in s : \A n \in s : n <= m

\* C29: a resolver pass is bounded by the number N of agents of the auction:
\* the bids it has placed and the agents it has still to serve never exceed
\* N together; every automatic bid that commits raises current_price
\* strictly, to an amount that is at most the highest ceiling.
ResolverPassIsBounded ==
    [][/\ resolver'.pc # "idle"
          => resolver'.placed + Len(resolver'.todo)
                <= Cardinality(AgentsOf(autoBids', resolver'.auctionId))
       /\ \A i \in NewAutoBids :
             /\ auctions'[bids'[i].auction_id].current_price
                   > auctions[bids'[i].auction_id].current_price
             /\ auctions'[bids'[i].auction_id].current_price
                   <= MaxCeiling(bids'[i].auction_id)]_vars

\* a pass over two agents has placed a bid and is calling placeBid again
SecondCallOfPass == resolver.pc = "wait" /\ resolver.placed = 1

\* C30: at every price an auction reaches, the next bid of an agent is the
\* minimum bid placeBid asks of a manual bid: calculateNextBid(price) equals
\* calculateMinBid(price, bid_increment_percentage).
NextBidIsMinBid ==
    \A a \in AuctionIds :
        calculateNextBid(auctions[a].current_price)
            = calculateMinBid(auctions[a].current_price,
                              auctions[a].bid_increment_percentage)

\* C31: no step changes the start_time or the end_time of an auction.
ScheduleIsFixed ==
    [][\A a \in AuctionIds :
          /\ auctions'[a].start_time = auctions[a].start_time
          /\ auctions'[a].end_time = auctions[a].end_time]_vars

\* C32: no step deletes a record: every row of auto_bids, every agent of the
\* service, every bid and every auction is still there after the step.
NoRecordIsDeleted ==
    [][/\ \A r \in auto_bids : AutoBidRows(auto_bids', r.auction_id, r.user_id) # {}
       /\ \A i \in 1..Len(autoBids) :
             AutoBidKeyAt(autoBids', autoBids[i].auctionId, autoBids[i].userId) # {}
       /\ \A i \in 1..Len(bids) : \E j \in 1..Len(bids') : bids'[j].id = bids[i].id
       /\ DOMAIN auctions' = DOMAIN auctions]_vars

\* the minimum the entry point of a submission computes from the auction's
\* current row
EntryPointMinimum(r) ==
    IF r.path = "rest" THEN RestMinBidAmount(auctions[r.auctionId])
    ELSE auctions[r.auctionId].current_price
            + CeilPercent(auctions[r.auctionId].current_price,
                          auctions[r.auctionId].bid_increment_percentage)

\* C33 (as stated): the amount of every bid that commits is strictly greater
\* than the minimum computed from the auction's current price at that time.
AcceptedAboveMinimum ==
    [][\A p \in DOMAIN req :
          (req[p].pc = "commit" /\ req'[p].pc = "post")
             => req[p].amount > EntryPointMinimum(req[p])]_vars

\* C33 (amended): the amount of every bid that commits is greater than or
\* equal to the minimum its entry point computes from the auction's current
\* price at that time.
AcceptedAtLeastMinimum ==
    [][\A p \in DOMAIN req :
          (req[p].pc = "commit" /\ req'[p].pc = "post")
             => req[p].amount >= EntryPointMinimum(req[p])]_vars

\* a bid of exactly the minimum above the starting price is in the ledger
BidOfExactlyTheMinimum ==
    \E i \in 1..Len(bids) :
        /\ bids[i].amount = StartingPrice + CeilPercent(StartingPrice,
               auctions[bids[i].auction_id].bid_increment_percentage)
        /\ bids[i].is_winning

\* the submission of slot p ends in this step without a commit: a check
\* turned it away, or its transaction was rolled back
TurnedAwayOrRolledBack(p) ==
    /\ req[p].pc \notin {"post", "notify", "return", "done"}
    /\ req'[p].pc = "done"
    /\ req'[p].outcome # "accepted"

\* C34: a step in which a submission is turned away or rolled back leaves
\* every auction row (price, bid count, end times, status) and every bid row
\* (is_winning flags) as they were, and no bid_update or auction_extended
\* event of that submission has been emitted.
RejectedBidLeavesNoTrace ==
    [][\A p \in DOMAIN req :
          TurnedAwayOrRolledBack(p)
             => /\ auctions' = auctions
                /\ bids' = bids
                /\ \A i \in 1..Len(events') :
                      ~ /\ events'[i].type \in {"bid_update", "auction_extended"}
                        /\ events'[i].auctionId = req'[p].auctionId
                        /\ req'[p].bidId # 0
                        /\ events'[i].bidId = req'[p].bidId]_vars

\* the transaction of the bid with this id is still open
InTransaction(bidId) ==
    \E p \in DOMAIN req : req[p].pc = "commit" /\ req[p].bidId = bidId

\* C38: for every auction_extended event whose transaction is over, the
\* stored extended_end_time of the auction is at least the newEndTime of the
\* event.
ExtendedEventIsCommitted ==
    \A i \in 1..Len(events) :
        (events[i].type = "auction_extended" /\ ~InTransaction(events[i].bidId))
            => auctions[events[i].auctionId].extended_end_time
                   >= events[i].value

\* the bid a submission inserted is in the ledger
InLedger(r) ==
    r.bidId # 0 /\ \E i \in 1..Len(bids) : bids[i].id = r.bidId

EveryBidPassesUniqueKey ==
    [][\A p \in DOMAIN req :
          (req[p].pc = "tx" /\ req'[p].pc # "tx")
             => BidStatements(bids, nextBidId, req[p].auctionId,
                              req[p].userId, req[p].amount,
                              BidType(req[p])).ok]_vars

\* the decision of the REST route on a submission: its checks on the rows,
\* then its highest-bid check
PostBidDecision(a, u, amt) ==
    LET h == HighestBid(bids, a)
    IN  IF PostBidCheck(auctions[a], u, amt, now) # "ok"
        THEN PostBidCheck(auctions[a], u, amt, now)
        ELSE IF h # 0 /\ bids[h].user_id = u THEN "already_highest"
        ELSE "ok"

\* C36: in every state, for every auction, bidder and amount, the socket
\* entry point lets the submission through to its transaction exactly when
\* the REST entry point does.
EntryPointsDecideAlike ==
    \A a \in AuctionIds, u \in Users, amt \in Amounts :
        PlaceBidCheck(auctions[a], u, amt) = "ok"
            <=> PostBidDecision(a, u, amt) = "ok"

\* the positions in the event log of the events of one type about one bid
BidEvents(type, bidId) ==
    {i \in 1..Len(events) : events[i].type = type /\ events[i].bidId = bidId}

\* C39: the room of an auction receives at most one auction_started and at
\* most one auction_ended, no bid has more than one bid_update, and a bid
\* whose place_bid handler has finished with success has exactly one.
EachEventOnce ==
    /\ \A a \in AuctionIds :
          /\ Cardinality(EventsOf("auction_started", a)) <= 1
          /\ Cardinality(EventsOf("auction_ended", a)) <= 1
    /\ \A i \in 1..Len(bids) :
          Cardinality(BidEvents("bid_update", bids[i].id)) <= 1
    /\ \A p \in DOMAIN req :
          (req[p].path = "socket" /\ req[p].pc = "done"
               /\ req[p].outcome = "accepted")
             => Cardinality(BidEvents("bid_update", req[p].bidId)) = 1
====
